---- MODULE Spec2Model ----
(***************************************************************************)
(* Model of forge-studio: register_openapi.py (OpenAPIToMCP and main) and  *)
(* the "Register API" handler of app.py.                                   *)
(*                                                                         *)
(* Spec      : one registration run, started from main() or from the web   *)
(*             form, against a gateway whose responses are nondeterministic*)
(* ParamSpec : extract_parameters applied to a bounded set of operations   *)
(*                                                                         *)
(* Documents are OpenAPI documents whose operations are objects and whose  *)
(* parameters are Parameter Objects (they carry 'name' and 'in'), so that  *)
(* extract_parameters returns for every operation of a run.  A parameter   *)
(* written as a bare reference has no 'in' key: line 62 then raises        *)
(* KeyError outside the try statement; such documents are not modelled.    *)
(* In Spec an operation is known by its path and key alone: the schema     *)
(* extract_parameters builds for it travels in the tool descriptor and is  *)
(* the subject of ParamSpec.                                               *)
(***************************************************************************)
EXTENDS Integers, Sequences, FiniteSets, TLC

VARIABLES
    entry,          \* "main" (register_openapi.py) or "app" (app.py handler)
    BEARER_TOKEN,   \* os.getenv('MCPGATEWAY_BEARER_TOKEN') / the form's token
    argv_ok,        \* main: len(sys.argv) >= 2
    file_ok,        \* main: Path(spec_path).exists(); app: a file is uploaded
    paths,          \* spec['paths']: sequence of paths, each a sequence of keys
    pc,             \* position of the run
    k,              \* index of the (path, method) entry the loop is at
    tool_ids,       \* register_openapi_spec's tool_ids list
    calls,          \* network calls issued so far, with their responses
    out,            \* messages printed (stdout) or shown (streamlit)
    result,         \* what register_openapi_spec returned
    exit_code,      \* sys.exit status, meaningful when pc = "exited"
    config_file,    \* content of mcp_server_config.json
    operation,      \* ParamSpec: the operation given to extract_parameters
    schema,         \* ParamSpec: extract_parameters' schema being built
    ppc             \* ParamSpec: position inside extract_parameters

runVars == <<entry, BEARER_TOKEN, argv_ok, file_ok, paths, pc, k, tool_ids,
             calls, out, result, exit_code, config_file>>
paramVars == <<operation, schema, ppc>>
vars == <<entry, BEARER_TOKEN, argv_ok, file_ok, paths, pc, k, tool_ids,
          calls, out, result, exit_code, config_file, operation, schema, ppc>>

----------------------------------------------------------------------------
(* Bounds of the model *)

\* most (path, method) entries in a modelled document
MaxOps == 2

\* most entries of an operation's 'parameters' list
MaxParams == 2

----------------------------------------------------------------------------
(* Values *)

\* Python's None; identifiers are non-empty tuples, so None differs from all
None == <<>>

\* the verbs of the membership test at line 153
HttpVerbs == {"GET", "POST", "PUT", "DELETE", "PATCH"}

\* keys that occur under a path in the modelled documents
MethodKeys == {"get", "POST", "Patch", "head", "options", "parameters"}

\* str.upper() on the modelled keys
Upper(method) ==
    CASE method = "get" -> "GET"
      [] method = "POST" -> "POST"
      [] method = "Patch" -> "PATCH"
      [] method = "head" -> "HEAD"
      [] method = "options" -> "OPTIONS"
      [] method = "parameters" -> "PARAMETERS"
      [] OTHER -> method

\* variant of Eligible: the key is compared as written, without upper()
Eligible_CaseSensitive(method) == method \in HttpVerbs

\* the test of line 153: the entry is registered as a tool
Eligible(method) == Upper(method) \in HttpVerbs

----------------------------------------------------------------------------
(* The document: spec['paths'] *)

\* the method mappings of one path: one to n distinct keys, in file order
KeySeqs(n) ==
    UNION {{s \in [1..l -> MethodKeys] :
               \A a, b \in 1..l : a # b => s[a] # s[b]} : l \in 1..n}

RECURSIVE Docs(_, _)
\* documents of at most p (non-empty) paths holding at most n entries in all
Docs(n, p) ==
    IF p = 0 THEN {<<>>}
    ELSE {<<>>} \cup
         UNION {{<<m>> \o d : d \in Docs(n - Len(m), p - 1)} : m \in KeySeqs(n)}

Documents == Docs(MaxOps, MaxOps)

RECURSIVE EntriesFrom_MethodsReversed(_, _)
\* variant of EntriesFrom: the methods of a path are visited last to first
EntriesFrom_MethodsReversed(ps, i) ==
    IF i > Len(ps) THEN <<>>
    ELSE [j \in 1..Len(ps[i]) |->
             [path |-> i, method |-> ps[i][Len(ps[i]) + 1 - j]]]
         \o EntriesFrom_MethodsReversed(ps, i + 1)

RECURSIVE EntriesFrom(_, _)
\* the nested iteration of lines 151-152, flattened in its order
EntriesFrom(ps, i) ==
    IF i > Len(ps) THEN <<>>
    ELSE [j \in 1..Len(ps[i]) |-> [path |-> i, method |-> ps[i][j]]]
         \o EntriesFrom(ps, i + 1)

Entries == EntriesFrom(paths, 1)

----------------------------------------------------------------------------
(* The gateway's responses *)

Pending == [status |-> "pending"]

\* identifiers the gateway hands out for the n-th network call
ToolId(n) == <<"tool", n>>
AltId(n) == <<"alt", n>>
ServerId(n) == <<"server", n>>

\* responses to POST /tools: "error" is any raise inside register_tool
\* (requests.post, raise_for_status, response.json); "array" is a JSON body
\* that is not an object; an object is given by what .get returns for it
ToolResponses(n) ==
    {[status |-> "error"],
     [status |-> "ok", kind |-> "array"],
     [status |-> "ok", kind |-> "object", id |-> ToolId(n), tool_id |-> None],
     [status |-> "ok", kind |-> "object", id |-> None, tool_id |-> AltId(n)],
     [status |-> "ok", kind |-> "object", id |-> None, tool_id |-> None]}

\* responses to POST /servers: "unreachable" is a raise inside requests.post,
\* "error" a response whose status is not OK
ServerResponses(n) ==
    {[status |-> "unreachable"],
     [status |-> "error", status_code |-> 422, text |-> "Unprocessable Entity"],
     [status |-> "ok", kind |-> "object", id |-> ServerId(n), uuid |-> None],
     [status |-> "ok", kind |-> "object", id |-> None, uuid |-> ServerId(n)],
     [status |-> "ok", kind |-> "object", id |-> None, uuid |-> None]}

\* Python's `a or b` on identifiers (None is the falsy value modelled)
Or(a, b) == IF a # None THEN a ELSE b

\* register_tool (lines 95-104) raises instead of returning the JSON body
RegisterToolRaises(resp) == resp.status = "error"

\* the try body of lines 178-180 raises: register_tool, or .get on a non-dict
TryRaises(resp) ==
    \/ RegisterToolRaises(resp)
    \/ resp.kind # "object"

\* line 179
ExtractToolId(res) == Or(res.id, res.tool_id)

\* variant of AppendToolId: the list is overwritten instead of extended
AppendToolId_KeepsLast(ids, res) == <<ExtractToolId(res)>>

\* line 180: the list after a registration that did not raise
AppendToolId(ids, res) == Append(ids, ExtractToolId(res))

\* lines 177-183: tool_ids after the response to one tool POST
AfterToolResponse(ids, resp) ==
    IF TryRaises(resp) THEN ids ELSE AppendToolId(ids, resp)

\* lines 156-176 and 97-102: the POST /tools call for one entry, as logged:
\* url carries the path, request_type the upper-cased key
ToolRequest(e) ==
    [endpoint |-> "/tools",
     path |-> e.path,
     method |-> e.method,
     request_type |-> Upper(e.method),
     response |-> Pending]

\* variant of AfterTry: the exception of a failed registration is not caught
AfterTry_Uncaught(resp) == IF TryRaises(resp) THEN "raised" ELSE "loop"

\* lines 177-183: where the run stands after the try statement; the except
\* clause swallows the exception, so the loop goes on either way
AfterTry(resp) == "loop"

\* lines 108-114: the server descriptor
ServerDescriptor(ids) == [associatedTools |-> ids]

\* lines 192 and 116-120: the POST /servers call, as logged
ServerRequest(ids) ==
    [endpoint |-> "/servers",
     server |-> ServerDescriptor(ids),
     response |-> Pending]

\* lines 116-127: create_virtual_server raises
CreateServerRaises(resp) == resp.status \in {"unreachable", "error"}

\* variant of ServerFailureReport: the status is printed, the body is not
ServerFailureReport_NoBody(resp) ==
    IF resp.status = "error"
    THEN <<[msg |-> "server_creation_failed", status_code |-> resp.status_code]>>
    ELSE <<>>

\* lines 122-124: what create_virtual_server prints before it raises
ServerFailureReport(resp) ==
    IF resp.status = "error"
    THEN <<[msg |-> "server_creation_failed", status_code |-> resp.status_code],
           [msg |-> "response", text |-> resp.text]>>
    ELSE <<>>

\* variant of Summary: tool_count counts the paths of the document
Summary_CountsPaths(ids, server) ==
    [server_uuid |-> Or(server.id, server.uuid),
     tool_ids |-> ids,
     tool_count |-> Len(paths)]

\* lines 194-203: the summary register_openapi_spec returns
Summary(ids, server) ==
    [server_uuid |-> Or(server.id, server.uuid),
     tool_ids |-> ids,
     tool_count |-> Len(ids)]

NoResult == [none |-> TRUE]
NoFile == [absent |-> TRUE]

----------------------------------------------------------------------------
(* One registration run *)

Tokens == {None, <<"">>, <<"secret">>}

\* variant of TokenMissing: only an unset token counts, an empty one passes
TokenMissing_OnlyNone(tok) == tok = None

\* `not BEARER_TOKEN` (line 211) / `not bearer_token` (app.py line 107)
TokenMissing(tok) == tok = None \/ tok = <<"">>

Init ==
    /\ entry \in {"main", "app"}
    /\ BEARER_TOKEN \in (IF entry = "main" THEN Tokens ELSE Tokens \ {None})
    /\ argv_ok \in (IF entry = "main" THEN BOOLEAN ELSE {TRUE})
    /\ file_ok \in BOOLEAN
    /\ paths = <<>>
    /\ pc = "start"
    /\ k = 1
    /\ tool_ids = <<>>
    /\ calls = <<>>
    /\ out = <<>>
    /\ result = NoResult
    /\ exit_code = 0
    /\ config_file = NoFile
    /\ operation = [none |-> TRUE]
    /\ schema = [none |-> TRUE]
    /\ ppc = "idle"

\* main, lines 211-214
MainNoToken ==
    /\ pc = "start" /\ entry = "main"
    /\ TokenMissing(BEARER_TOKEN)
    /\ out' = Append(out, [msg |-> "token_not_set"])
    /\ pc' = "exited"
    /\ exit_code' = 1
    /\ UNCHANGED <<entry, BEARER_TOKEN, argv_ok, file_ok, paths, k, tool_ids,
                   calls, result, config_file>>
    /\ UNCHANGED paramVars

\* main, lines 216-222
MainUsage ==
    /\ pc = "start" /\ entry = "main"
    /\ ~TokenMissing(BEARER_TOKEN)
    /\ ~argv_ok
    /\ out' = Append(out, [msg |-> "usage"])
    /\ pc' = "exited"
    /\ exit_code' = 1
    /\ UNCHANGED <<entry, BEARER_TOKEN, argv_ok, file_ok, paths, k, tool_ids,
                   calls, result, config_file>>
    /\ UNCHANGED paramVars

\* main, lines 224-228
MainFileNotFound ==
    /\ pc = "start" /\ entry = "main"
    /\ ~TokenMissing(BEARER_TOKEN)
    /\ argv_ok
    /\ ~file_ok
    /\ out' = Append(out, [msg |-> "file_not_found"])
    /\ pc' = "exited"
    /\ exit_code' = 1
    /\ UNCHANGED <<entry, BEARER_TOKEN, argv_ok, file_ok, paths, k, tool_ids,
                   calls, result, config_file>>
    /\ UNCHANGED paramVars

\* main, lines 230-237: the converter is built and register_openapi_spec called
MainStart ==
    /\ pc = "start" /\ entry = "main"
    /\ ~TokenMissing(BEARER_TOKEN)
    /\ argv_ok
    /\ file_ok
    /\ pc' = "register"
    /\ UNCHANGED <<entry, BEARER_TOKEN, argv_ok, file_ok, paths, k, tool_ids,
                   calls, out, result, exit_code, config_file>>
    /\ UNCHANGED paramVars

\* app.py lines 106-108: Register pressed (enabled only with a file) without token
AppNoToken ==
    /\ pc = "start" /\ entry = "app"
    /\ file_ok
    /\ TokenMissing(BEARER_TOKEN)
    /\ out' = Append(out, [msg |-> "token_required"])
    /\ pc' = "shown"
    /\ UNCHANGED <<entry, BEARER_TOKEN, argv_ok, file_ok, paths, k, tool_ids,
                   calls, result, exit_code, config_file>>
    /\ UNCHANGED paramVars

\* app.py lines 109-130: the converter is built and register_openapi_spec called
AppStart ==
    /\ pc = "start" /\ entry = "app"
    /\ file_ok
    /\ ~TokenMissing(BEARER_TOKEN)
    /\ pc' = "register"
    /\ UNCHANGED <<entry, BEARER_TOKEN, argv_ok, file_ok, paths, k, tool_ids,
                   calls, out, result, exit_code, config_file>>
    /\ UNCHANGED paramVars

\* register_openapi_spec, lines 131-149: the document is read, the list emptied
LoadSpec ==
    /\ pc = "register"
    /\ \E doc \in Documents : paths' = doc
    /\ tool_ids' = <<>>
    /\ k' = 1
    /\ pc' = "loop"
    /\ UNCHANGED <<entry, BEARER_TOKEN, argv_ok, file_ok, calls, out, result,
                   exit_code, config_file>>
    /\ UNCHANGED paramVars

\* lines 131-132: the file cannot be parsed; the exception leaves the method
LoadSpecRaises ==
    /\ pc = "register"
    /\ pc' = "raised"
    /\ UNCHANGED <<entry, BEARER_TOKEN, argv_ok, file_ok, paths, k, tool_ids,
                   calls, out, result, exit_code, config_file>>
    /\ UNCHANGED paramVars

\* lines 153-154: an entry whose key is no verb is passed over
SkipEntry ==
    /\ pc = "loop"
    /\ k <= Len(Entries)
    /\ ~Eligible(Entries[k].method)
    /\ k' = k + 1
    /\ UNCHANGED <<entry, BEARER_TOKEN, argv_ok, file_ok, paths, pc, tool_ids,
                   calls, out, result, exit_code, config_file>>
    /\ UNCHANGED paramVars

\* lines 156-178 with 97-102: the tool descriptor is built and POSTed
PostTool ==
    /\ pc = "loop"
    /\ k <= Len(Entries)
    /\ Eligible(Entries[k].method)
    /\ calls' = Append(calls, ToolRequest(Entries[k]))
    /\ pc' = "await_tool"
    /\ UNCHANGED <<entry, BEARER_TOKEN, argv_ok, file_ok, paths, k, tool_ids,
                   out, result, exit_code, config_file>>
    /\ UNCHANGED paramVars

\* lines 103-104 and 179-183: the response arrives; the loop goes on either way
ToolResponse ==
    /\ pc = "await_tool"
    /\ \E resp \in ToolResponses(Len(calls)) :
        /\ calls' = [calls EXCEPT ![Len(calls)].response = resp]
        /\ tool_ids' = AfterToolResponse(tool_ids, resp)
        /\ out' = Append(out, IF TryRaises(resp)
                              THEN [msg |-> "failed", entry |-> k]
                              ELSE [msg |-> "created", entry |-> k])
        /\ pc' = AfterTry(resp)
    /\ k' = k + 1
    /\ UNCHANGED <<entry, BEARER_TOKEN, argv_ok, file_ok, paths, result,
                   exit_code, config_file>>
    /\ UNCHANGED paramVars

\* lines 185-192 with 108-120: after the loop the server descriptor is POSTed
PostServer ==
    /\ pc = "loop"
    /\ k > Len(Entries)
    /\ out' = Append(out, [msg |-> "registered", count |-> Len(tool_ids)])
    /\ calls' = Append(calls, ServerRequest(tool_ids))
    /\ pc' = "await_server"
    /\ UNCHANGED <<entry, BEARER_TOKEN, argv_ok, file_ok, paths, k, tool_ids,
                   result, exit_code, config_file>>
    /\ UNCHANGED paramVars

\* lines 122-127 and 194-203: the response arrives; report and raise, or return
ServerResponse ==
    /\ pc = "await_server"
    /\ \E resp \in ServerResponses(Len(calls)) :
        /\ calls' = [calls EXCEPT ![Len(calls)].response = resp]
        /\ IF CreateServerRaises(resp)
           THEN /\ out' = out \o ServerFailureReport(resp)
                /\ pc' = "raised"
                /\ result' = result
           ELSE /\ out' = Append(out, [msg |-> "server_created"])
                /\ pc' = "returned"
                /\ result' = Summary(tool_ids, resp)
    /\ UNCHANGED <<entry, BEARER_TOKEN, argv_ok, file_ok, paths, k, tool_ids,
                   exit_code, config_file>>
    /\ UNCHANGED paramVars

\* main, lines 239-263: the summary is printed and the configuration saved
MainComplete ==
    /\ pc = "returned" /\ entry = "main"
    /\ out' = Append(out, [msg |-> "registration_complete"])
    /\ config_file' = [server_uuid |-> result.server_uuid,
                       tool_count |-> result.tool_count]
    /\ pc' = "exited"
    /\ exit_code' = 0
    /\ UNCHANGED <<entry, BEARER_TOKEN, argv_ok, file_ok, paths, k, tool_ids,
                   calls, result>>
    /\ UNCHANGED paramVars

\* main, lines 265-269
MainExcept ==
    /\ pc = "raised" /\ entry = "main"
    /\ out' = Append(out, [msg |-> "error"])
    /\ pc' = "exited"
    /\ exit_code' = 1
    /\ UNCHANGED <<entry, BEARER_TOKEN, argv_ok, file_ok, paths, k, tool_ids,
                   calls, result, config_file>>
    /\ UNCHANGED paramVars

\* app.py lines 132-161; slicing a None server_uuid (line 145) raises into 163
AppComplete ==
    /\ pc = "returned" /\ entry = "app"
    /\ out' = out \o (IF result.server_uuid = None
                      THEN <<[msg |-> "registered_successfully"],
                             [msg |-> "registration_failed"]>>
                      ELSE <<[msg |-> "registered_successfully"]>>)
    /\ pc' = "shown"
    /\ UNCHANGED <<entry, BEARER_TOKEN, argv_ok, file_ok, paths, k, tool_ids,
                   calls, result, exit_code, config_file>>
    /\ UNCHANGED paramVars

\* app.py lines 163-165
AppExcept ==
    /\ pc = "raised" /\ entry = "app"
    /\ out' = Append(out, [msg |-> "registration_failed"])
    /\ pc' = "shown"
    /\ UNCHANGED <<entry, BEARER_TOKEN, argv_ok, file_ok, paths, k, tool_ids,
                   calls, result, exit_code, config_file>>
    /\ UNCHANGED paramVars

Next ==
    \/ MainNoToken
    \/ MainUsage
    \/ MainFileNotFound
    \/ MainStart
    \/ AppNoToken
    \/ AppStart
    \/ LoadSpec
    \/ LoadSpecRaises
    \/ SkipEntry
    \/ PostTool
    \/ ToolResponse
    \/ PostServer
    \/ ServerResponse
    \/ MainComplete
    \/ MainExcept
    \/ AppComplete
    \/ AppExcept

Spec == Init /\ [][Next]_vars

----------------------------------------------------------------------------
(* extract_parameters: dictionaries are functions on their keys *)

EmptyDict == [x \in {} |-> x]

\* dict.get(key, default)
Get(d, key, default) == IF key \in DOMAIN d THEN d[key] ELSE default

\* dict.update / item assignment: what is written wins over what was there
Update(d, written) == written @@ d

\* lines 53-57
InitialSchema ==
    [type |-> "object", properties |-> EmptyDict, required |-> <<>>]

\* lines 64-67: the property emitted for a path parameter
PathProperty(param) ==
    [type |-> Get(Get(param, "schema", EmptyDict), "type", "string"),
     description |-> Get(param, "description", <<"Path parameter: ", param.name>>)]

\* variant of IsPathParam: query parameters are taken as well
IsPathParam_OrQuery(param) == param["in"] \in {"path", "query"}

\* line 62
IsPathParam(param) == param["in"] = "path"

\* lines 62-69: one turn of the loop over the parameters
AddParameter(sch, param) ==
    IF IsPathParam(param)
    THEN [sch EXCEPT
            !.properties = Update(@, param.name :> PathProperty(param)),
            !.required = IF Get(param, "required", FALSE)
                         THEN Append(@, param.name) ELSE @]
    ELSE sch

RECURSIVE AddParameters(_, _, _)
\* line 61: the loop, from the i-th parameter on
AddParameters(sch, params, i) ==
    IF i > Len(params) THEN sch
    ELSE AddParameters(AddParameter(sch, params[i]), params, i + 1)

\* lines 60-69
WithParameters(op, sch) ==
    IF "parameters" \in DOMAIN op
    THEN AddParameters(sch, op.parameters, 1)
    ELSE sch

\* `'application/json' in content_type` (line 76) on the modelled types
ContainsJson(content_type) ==
    content_type \in {"application/json", "application/json; charset=utf-8"}

\* line 80
HasRef(body_schema) == "$ref" \in DOMAIN body_schema

\* lines 82-85
BodyPlaceholder ==
    [type |-> "object",
     description |-> <<"Request body (see OpenAPI spec for full schema)">>]

\* variant of MergeBodySchema: the keys beside a $ref are merged as well
MergeBodySchema_RefAlsoMerges(sch, body_schema) ==
    [sch EXCEPT
       !.properties =
           LET p == IF HasRef(body_schema)
                    THEN Update(@, "body" :> BodyPlaceholder) ELSE @
           IN IF "properties" \in DOMAIN body_schema
              THEN Update(p, body_schema.properties) ELSE p,
       !.required = IF "required" \in DOMAIN body_schema
                    THEN @ \o body_schema.required ELSE @]

\* lines 80-91: what one JSON body schema does to the schema
MergeBodySchema(sch, body_schema) ==
    IF HasRef(body_schema)
    THEN [sch EXCEPT !.properties = Update(@, "body" :> BodyPlaceholder)]
    ELSE [sch EXCEPT
            !.properties = IF "properties" \in DOMAIN body_schema
                           THEN Update(@, body_schema.properties) ELSE @,
            !.required = IF "required" \in DOMAIN body_schema
                         THEN @ \o body_schema.required ELSE @]

\* lines 76-91: one turn of the loop over the content types
AddContent(sch, content_type, content) ==
    IF ContainsJson(content_type) /\ "schema" \in DOMAIN content
    THEN MergeBodySchema(sch, content.schema)
    ELSE sch

RECURSIVE AddContents(_, _, _)
\* line 75: the loop over req_body['content'].items(), from the i-th on
AddContents(sch, items, i) ==
    IF i > Len(items) THEN sch
    ELSE AddContents(AddContent(sch, items[i][1], items[i][2]), items, i + 1)

\* lines 72-91
WithRequestBody(op, sch) ==
    IF "requestBody" \in DOMAIN op /\ "content" \in DOMAIN op.requestBody
    THEN AddContents(sch, op.requestBody.content, 1)
    ELSE sch

\* lines 51-93
extract_parameters(op) == WithRequestBody(op, WithParameters(op, InitialSchema))

----------------------------------------------------------------------------
(* The operations extract_parameters is applied to *)

ParamNames == {"id", "body"}

\* path parameters: 'required' and 'schema' present or not
PathParams ==
    {[name |-> n, in |-> "path"] @@ r @@ t :
        n \in ParamNames,
        r \in {EmptyDict, [required |-> TRUE], [required |-> FALSE]},
        t \in {EmptyDict, [schema |-> [type |-> "integer"]]}}
    \cup {[name |-> "id", in |-> "path", required |-> TRUE,
           description |-> <<"The identifier">>]}

\* parameters located elsewhere
OtherParams ==
    {[name |-> "body", in |-> "query", required |-> TRUE,
      schema |-> [type |-> "integer"]],
     [name |-> "id", in |-> "header", required |-> TRUE],
     [name |-> "id", in |-> "cookie"]}

ParamLists ==
    UNION {[1..l -> PathParams \cup OtherParams] : l \in 0..MaxParams}

ContentTypes ==
    {"application/json", "application/json; charset=utf-8", "application/xml"}

\* the properties and required names a body schema of a content type declares
DeclaredProperties(ct) ==
    IF ct = "application/json"
    THEN [id |-> [type |-> "number"], title |-> [type |-> "string"]]
    ELSE IF ct = "application/xml"
    THEN [xml |-> [type |-> "string"]]
    ELSE [id |-> [type |-> "boolean"]]
DeclaredRequired(ct) ==
    IF ct = "application/json" THEN <<"title">>
    ELSE IF ct = "application/xml" THEN <<"xml">>
    ELSE <<"id">>

\* what a content type maps to: no schema, a reference, a reference with
\* sibling keys, an inline schema, an empty schema
ContentValues(ct) ==
    IF ct = "application/xml"
    THEN {[schema |-> [properties |-> DeclaredProperties(ct),
                       required |-> DeclaredRequired(ct)]]}
    ELSE IF ct = "application/json; charset=utf-8"
    THEN {[schema |-> ("$ref" :> "#/components/schemas/Item")],
          [schema |-> [properties |-> DeclaredProperties(ct),
                       required |-> DeclaredRequired(ct)]]}
    ELSE {[example |-> "x"],
          [schema |-> ("$ref" :> "#/components/schemas/Item")],
          [schema |-> ("$ref" :> "#/components/schemas/Item")
                       @@ [properties |-> DeclaredProperties(ct),
                           required |-> DeclaredRequired(ct)]],
          [schema |-> [properties |-> DeclaredProperties(ct),
                       required |-> DeclaredRequired(ct)]],
          [schema |-> [type |-> "object"]]}

\* req_body['content']: each content type at most once, in file order
ContentItems ==
    UNION {{s \in [1..l -> UNION {{<<ct, v>> : v \in ContentValues(ct)} :
                                     ct \in ContentTypes}] :
               \A a, b \in 1..l : a # b => s[a][1] # s[b][1]} :
           l \in 0..Cardinality(ContentTypes)}

RequestBodies ==
    {[description |-> "no content"]} \cup {[content |-> c] : c \in ContentItems}

\* the 'parameters' and 'requestBody' keys of an operation, present or not
OptParameters == {EmptyDict} \cup {[parameters |-> ps] : ps \in ParamLists}
OptRequestBody == {EmptyDict} \cup {[requestBody |-> b] : b \in RequestBodies}

PInit ==
    /\ \E p \in OptParameters, b \in OptRequestBody :
         operation = [operationId |-> "op"] @@ p @@ b
    /\ schema = InitialSchema
    /\ ppc = "parameters"
    /\ entry = "main"
    /\ BEARER_TOKEN = None
    /\ argv_ok = FALSE
    /\ file_ok = FALSE
    /\ paths = <<>>
    /\ pc = "start"
    /\ k = 1
    /\ tool_ids = <<>>
    /\ calls = <<>>
    /\ out = <<>>
    /\ result = NoResult
    /\ exit_code = 0
    /\ config_file = NoFile

\* lines 59-69
HandleParameters ==
    /\ ppc = "parameters"
    /\ schema' = WithParameters(operation, schema)
    /\ ppc' = "requestBody"
    /\ UNCHANGED operation
    /\ UNCHANGED runVars

\* lines 71-93
HandleRequestBody ==
    /\ ppc = "requestBody"
    /\ schema' = WithRequestBody(operation, schema)
    /\ ppc' = "return"
    /\ UNCHANGED operation
    /\ UNCHANGED runVars

PNext ==
    \/ HandleParameters
    \/ HandleRequestBody

ParamSpec == PInit /\ [][PNext]_vars

----------------------------------------------------------------------------
(* Properties of extract_parameters *)

Params == IF "parameters" \in DOMAIN operation THEN operation.parameters ELSE <<>>

PathIdx == {i \in 1..Len(Params) : Params[i]["in"] = "path"}
PathNames == {Params[i].name : i \in PathIdx}

FlaggedRequired(param) == "required" \in DOMAIN param /\ param.required

\* the type a parameter declares, "string" when it declares none
DeclaredType(param) ==
    IF "schema" \in DOMAIN param /\ "type" \in DOMAIN param.schema
    THEN param.schema.type ELSE "string"

\* the names of the path parameters flagged required, in list order
RECURSIVE RequiredPathNamesFrom(_)
RequiredPathNamesFrom(i) ==
    IF i > Len(Params) THEN <<>>
    ELSE IF i \in PathIdx /\ FlaggedRequired(Params[i])
    THEN <<Params[i].name>> \o RequiredPathNamesFrom(i + 1)
    ELSE RequiredPathNamesFrom(i + 1)

\* the property of a path parameter carries the type of the (last) parameter
\* of that name
PathTypesKept(names) ==
    \A i \in PathIdx :
        (Params[i].name \in names
         /\ \A j \in PathIdx : j > i => Params[j].name # Params[i].name)
        => schema.properties[Params[i].name].type = DeclaredType(Params[i])

\* C7: without a request body the schema has one property per parameter
\* located in 'path', typed by its schema ("string" by default), none for a
\* parameter located elsewhere, and requires exactly the path parameters
\* flagged required
C7_PathParametersOnly ==
    (ppc = "return" /\ "requestBody" \notin DOMAIN operation) =>
        /\ DOMAIN schema.properties = PathNames
        /\ PathTypesKept(PathNames)
        /\ schema.required = RequiredPathNamesFrom(1)

C7_Witness ==
    /\ ppc = "return"
    /\ "requestBody" \notin DOMAIN operation
    /\ Len(Params) = MaxParams
    /\ \E i \in PathIdx : Params[i].name = "id" /\ FlaggedRequired(Params[i])
    /\ \E i \in 1..Len(Params) :
         Params[i]["in"] = "query" /\ FlaggedRequired(Params[i])
    /\ schema.required = <<"id">>
    /\ DOMAIN schema.properties = {"id"}

\* the JSON body schemas of the operation, by their place in 'content'
Items ==
    IF "requestBody" \in DOMAIN operation
       /\ "content" \in DOMAIN operation.requestBody
    THEN operation.requestBody.content ELSE <<>>
IsJsonType(ct) ==
    ct = "application/json" \/ ct = "application/json; charset=utf-8"
JsonIdx == {i \in 1..Len(Items) :
               IsJsonType(Items[i][1]) /\ "schema" \in DOMAIN Items[i][2]}
RefIdx == {i \in JsonIdx : "$ref" \in DOMAIN Items[i][2].schema}
BodyProperties(i) ==
    IF "properties" \in DOMAIN Items[i][2].schema
    THEN Items[i][2].schema.properties ELSE EmptyDict
BodyPropertyNames == UNION {DOMAIN BodyProperties(i) : i \in JsonIdx}

\* the required names of the JSON body schemas, in content order
RECURSIVE BodyRequiredFrom(_)
BodyRequiredFrom(i) ==
    IF i > Len(Items) THEN <<>>
    ELSE IF i \in JsonIdx /\ "required" \in DOMAIN Items[i][2].schema
    THEN Items[i][2].schema.required \o BodyRequiredFrom(i + 1)
    ELSE BodyRequiredFrom(i + 1)

\* C8: a JSON body schema without $ref has its properties merged into the
\* schema and its required names appended; one with $ref adds exactly one
\* property, "body" of type object, and merges nothing of the schema
C8_BodyMergedOrPlaceholder ==
    (ppc = "return" /\ JsonIdx # {}) =>
        /\ RefIdx = {} =>
            /\ DOMAIN schema.properties = PathNames \cup BodyPropertyNames
            /\ \A i \in JsonIdx : \A n \in DOMAIN BodyProperties(i) :
                 (\A j \in JsonIdx : j > i => n \notin DOMAIN BodyProperties(j))
                 => schema.properties[n] = BodyProperties(i)[n]
            /\ PathTypesKept(PathNames \ BodyPropertyNames)
            /\ schema.required = RequiredPathNamesFrom(1) \o BodyRequiredFrom(1)
        /\ RefIdx = JsonIdx =>
            /\ DOMAIN schema.properties = PathNames \cup {"body"}
            /\ schema.properties["body"].type = "object"
            /\ schema.properties["body"] = BodyPlaceholder
            /\ PathTypesKept(PathNames \ {"body"})
            /\ schema.required = RequiredPathNamesFrom(1)

C8_Witness ==
    /\ ppc = "return"
    /\ RefIdx = JsonIdx
    /\ \E i \in RefIdx : "properties" \in DOMAIN Items[i][2].schema
    /\ PathNames = {"id"}
    /\ DOMAIN schema.properties = {"id", "body"}
    /\ schema.required = <<>>

----------------------------------------------------------------------------
(* Vocabulary of the properties, read off the document and the call log *)

\* a key that names one of the five verbs, whatever its case
IsVerbKey(m) ==
    m \in {"get", "post", "put", "delete", "patch",
           "GET", "POST", "PUT", "DELETE", "PATCH",
           "Get", "Post", "Put", "Delete", "Patch"}

\* the (path, position) places of the document, and those holding a verb
Places == UNION {{<<p, j>> : j \in 1..Len(paths[p])} : p \in 1..Len(paths)}
VerbPlaces == {pl \in Places : IsVerbKey(paths[pl[1]][pl[2]])}

\* where in the document a logged tool POST comes from
PlaceOf(c) ==
    <<c.path, CHOOSE j \in 1..Len(paths[c.path]) : paths[c.path][j] = c.method>>

\* iteration order of the document
Earlier(a, b) == a[1] < b[1] \/ (a[1] = b[1] /\ a[2] < b[2])

ToolCallIdx == {i \in 1..Len(calls) : calls[i].endpoint = "/tools"}
ServerCallIdx == {i \in 1..Len(calls) : calls[i].endpoint = "/servers"}

Answered(i) == calls[i].response.status # "pending"

\* the registration of a tool failed: the POST raised, or its answer was no
\* JSON object (what the run reports as "Failed")
Failed(i) ==
    /\ Answered(i)
    /\ \/ calls[i].response.status # "ok"
       \/ calls[i].response.kind # "object"

Succeeded(i) == Answered(i) /\ ~Failed(i)

\* the identifier the answer of call i carries: 'id', else 'tool_id', else None
ReturnedId(i) ==
    IF calls[i].response.id # None
    THEN calls[i].response.id
    ELSE calls[i].response.tool_id

\* the successful tool POSTs, in the order they were made
RECURSIVE ReturnedIdsFrom(_)
ReturnedIdsFrom(i) ==
    IF i > Len(calls) THEN <<>>
    ELSE IF i \in ToolCallIdx /\ Succeeded(i)
    THEN <<ReturnedId(i)>> \o ReturnedIdsFrom(i + 1)
    ELSE ReturnedIdsFrom(i + 1)

\* the loop over the document is over
LoopOver == pc \in {"await_server", "raised", "returned", "exited", "shown"}
            /\ calls # <<>>

----------------------------------------------------------------------------
(* Properties of the registration run *)

LaterVerbPlaces(pl) == {q \in VerbPlaces : Earlier(pl, q)}
NextVerbPlace(pl) ==
    CHOOSE q \in LaterVerbPlaces(pl) :
        \A r \in LaterVerbPlaces(pl) : r = q \/ Earlier(q, r)

C3_NoTokenNoCall ==
    (BEARER_TOKEN = None \/ BEARER_TOKEN = <<"">>) =>
        /\ calls = <<>>
        /\ result = NoResult
        /\ pc \in {"start", "exited", "shown"}
        /\ pc = "exited" => exit_code # 0

C3_Witness ==
    /\ BEARER_TOKEN = <<"">>
    /\ entry = "main"
    /\ pc = "exited"
    /\ exit_code = 1
    /\ calls = <<>>

\* the tool POSTs logged for one place of the document
CallsFor(pl) ==
    {i \in ToolCallIdx : calls[i].path = pl[1]
                         /\ calls[i].method = paths[pl[1]][pl[2]]}

C5_OneAtATimeInOrder ==
    /\ \A i \in 1..Len(calls) : i < Len(calls) => Answered(i)
    /\ \A i, j \in ToolCallIdx :
         i < j => Earlier(PlaceOf(calls[i]), PlaceOf(calls[j]))
    /\ \A s \in ServerCallIdx :
         /\ s = Len(calls)
         /\ \A pl \in VerbPlaces : \E i \in ToolCallIdx : PlaceOf(calls[i]) = pl

C5_Witness ==
    /\ pc = "await_server"
    /\ Cardinality(ToolCallIdx) = MaxOps
    /\ Len(paths) >= 2
    /\ \E i \in ToolCallIdx : Failed(i)
    /\ \E i \in ToolCallIdx : Succeeded(i)

\* the messages create_virtual_server prints for the answer of call s
Reported(s) ==
    /\ \E m \in 1..Len(out) :
         /\ out[m].msg = "server_creation_failed"
         /\ out[m].status_code = calls[s].response.status_code
    /\ \E m \in 1..Len(out) :
         /\ out[m].msg = "response"
         /\ out[m].text = calls[s].response.text

\* C6: when POST /servers is answered with a status that is not OK, the
\* status and the body are reported, the call raises, no summary is returned
\* and main exits with a status other than zero, leaving the configuration
\* file unwritten, whatever tools were registered
C6_ServerFailureSurfaces ==
    \A s \in ServerCallIdx : calls[s].response.status = "error" =>
        /\ Reported(s)
        /\ result = NoResult
        /\ config_file = NoFile
        /\ pc \in {"raised", "exited", "shown"}
        /\ pc = "exited" => exit_code # 0
        /\ pc = "shown" => out[Len(out)].msg = "registration_failed"

C6_Witness ==
    /\ entry = "main"
    /\ pc = "exited"
    /\ exit_code = 1
    /\ tool_ids # <<>>
    /\ \E s \in ServerCallIdx : calls[s].response.status = "error"

\* C9: once register_openapi_spec has returned, the list sent in the server
\* descriptor holds one entry per successful tool POST, in the order of the
\* POSTs, none for a failed one, and tool_count is the length of that list
C9_ListMatchesSuccesses ==
    result # NoResult =>
        \A s \in ServerCallIdx :
            /\ calls[s].server.associatedTools = ReturnedIdsFrom(1)
            /\ Len(calls[s].server.associatedTools)
                 = Cardinality({i \in ToolCallIdx : Succeeded(i)})
            /\ result.tool_ids = calls[s].server.associatedTools
            /\ result.tool_count = Len(calls[s].server.associatedTools)

C9_Witness ==
    /\ result # NoResult
    /\ Len(paths) = MaxOps
    /\ Cardinality(VerbPlaces) = MaxOps
    /\ result.tool_count = 1
    /\ Failed(1) /\ Succeeded(2)

\* C10: every entry of associatedTools is an identifier, not None, that the
\* gateway returned for a tool POST of the run
C10_NoNullEntry ==
    \A s \in ServerCallIdx :
        \A n \in 1..Len(calls[s].server.associatedTools) :
            /\ calls[s].server.associatedTools[n] # None
            /\ \E i \in ToolCallIdx :
                 /\ Succeeded(i)
                 /\ calls[s].server.associatedTools[n]
                      \in {calls[i].response.id, calls[i].response.tool_id}

====
